---- MODULE Spec2Model ----
(***************************************************************************)
(* A model of simple_ast (src/src/main.rs): the lexer `tokenise`, the      *)
(* recursive-descent parser parse_expression / parse_term / parse_factor   *)
(* run as an explicit call stack, build_ast and the renderer               *)
(* visualise_ast.  Positions are 0-based as in the Rust source; TLA+       *)
(* sequences are 1-based, so token i of the source is tokens[i + 1].       *)
(***************************************************************************)
EXTENDS Integers, Sequences, FiniteSets, TLC

VARIABLES input, status, tokens, stack, ret, err, ast, start_level, work, lines

vars == <<input, status, tokens, stack, ret, err, ast, start_level, work, lines>>

(***************************************************************************)
(* Bounds of the model.                                                    *)
(***************************************************************************)
\* longest arbitrary input string (any characters of Alphabet)
MaxLen == 4
\* longest well-formed input string
MaxTok == 9
\* longest all-digit input string of the lexer specification
MaxDigits == 10
\* largest depth the renderer is started at
MaxLevel == 1

(***************************************************************************)
(* i32                                                                     *)
(***************************************************************************)
MaxI32 == 2147483647
MinI32 == (-MaxI32) - 1

AddOverflows(a, b) ==
    \/ a >= 0 /\ b >= 0 /\ b > MaxI32 - a
    \/ a < 0 /\ b < 0 /\ b < MinI32 - a

\* a + b modulo 2^32, as a signed 32-bit value; no intermediate value leaves
\* the 32-bit range.
WrappingAdd(a, b) ==
    IF a >= 0 /\ b >= 0 /\ b > MaxI32 - a
    THEN ((a - MaxI32) - 1) + ((b - MaxI32) - 1)
    ELSE IF a < 0 /\ b < 0 /\ b < MinI32 - a
    THEN (a - MinI32) + (b - MinI32)
    ELSE a + b

\* value * 10 modulo 2^32 (10x = 2 * (4x + x))
WrappingMul10(x) ==
    LET x2 == WrappingAdd(x, x)
        x4 == WrappingAdd(x2, x2)
        x5 == WrappingAdd(x4, x)
    IN  WrappingAdd(x5, x5)

Mul10Overflows(x) == x > MaxI32 \div 10 \/ x < -(MaxI32 \div 10)

(***************************************************************************)
(* Data types: Operation, Token, Node                                      *)
(***************************************************************************)
Operation == {"Add", "Subtract", "Multiply", "Divide"}

Number(v) == [type |-> "Number", value |-> v]
Operator(o) == [type |-> "Operator", op |-> o]
LeftParen == [type |-> "LeftParen"]
RightParen == [type |-> "RightParen"]

Literal(v) == [kind |-> "Literal", value |-> v]
BinOp(o, l, r) == [kind |-> "BinOp", op |-> o, lhs |-> l, rhs |-> r]

\* placeholders for locals that are not yet bound
NoNode == [kind |-> "None"]
NoOp == "None"

(***************************************************************************)
(* tokenise                                                                *)
(***************************************************************************)
DigitChars == {"0", "1", "2", "3", "4", "5", "6", "7", "8", "9"}

is_digit(c) == c \in DigitChars

to_digit(c) ==
    CASE c = "0" -> 0 [] c = "1" -> 1 [] c = "2" -> 2 [] c = "3" -> 3
      [] c = "4" -> 4 [] c = "5" -> 5 [] c = "6" -> 6 [] c = "7" -> 7
      [] c = "8" -> 8 [] c = "9" -> 9

is_whitespace(c) == c \in {" ", "\t"}

SymbolChars == {"+", "-", "*", "/", "(", ")"}

SymbolToken(c) ==
    CASE c = "+" -> Operator("Add")
      [] c = "-" -> Operator("Subtract")
      [] c = "*" -> Operator("Multiply")
      [] c = "/" -> Operator("Divide")
      [] c = "(" -> LeftParen
      [] c = ")" -> RightParen

\* One step of the accumulation value = value * 10 + digit on an i32.  With
\* overflow checks (a debug build) an overflow panics; without them (a release
\* build) the value wraps.
Accumulate(value, digit, overflow_checks) ==
    IF Mul10Overflows(value) \/ AddOverflows(WrappingMul10(value), digit)
    THEN [ok |-> ~overflow_checks,
          value |-> WrappingAdd(WrappingMul10(value), digit)]
    ELSE [ok |-> TRUE, value |-> value * 10 + digit]

\* The inner loop: the digits that follow the first one, from position i.
RECURSIVE ScanDigits(_, _, _, _)
ScanDigits(inp, i, value, overflow_checks) ==
    IF i <= Len(inp) /\ is_digit(inp[i])
    THEN LET a == Accumulate(value, to_digit(inp[i]), overflow_checks)
         IN  IF a.ok
             THEN ScanDigits(inp, i + 1, a.value, overflow_checks)
             ELSE [ok |-> FALSE, value |-> a.value, next |-> i]
    ELSE [ok |-> TRUE, value |-> value, next |-> i]

\* The outer loop, from character i (1-based) with the tokens pushed so far.
RECURSIVE TokeniseFrom(_, _, _, _)
TokeniseFrom(inp, i, acc, overflow_checks) ==
    IF i > Len(inp)
    THEN [ok |-> TRUE, tokens |-> acc, err |-> "None"]
    ELSE LET c == inp[i] IN
         IF is_digit(c)
         THEN LET r == ScanDigits(inp, i + 1, to_digit(c), overflow_checks)
              IN  IF r.ok
                  THEN TokeniseFrom(inp, r.next, Append(acc, Number(r.value)),
                                    overflow_checks)
                  ELSE [ok |-> FALSE, tokens |-> <<>>, err |-> "ArithmeticOverflow"]
         ELSE IF c \in SymbolChars
         THEN TokeniseFrom(inp, i + 1, Append(acc, SymbolToken(c)), overflow_checks)
         ELSE IF is_whitespace(c)
         THEN TokeniseFrom(inp, i + 1, acc, overflow_checks)
         ELSE [ok |-> FALSE, tokens |-> <<>>, err |-> "InvalidToken"]

tokenise(inp, overflow_checks) == TokeniseFrom(inp, 1, <<>>, overflow_checks)

(***************************************************************************)
(* The call stack of the parser.  A frame holds a function's parameter     *)
(* `index`, its locals lhs / next_index / op, and where it stands (pc).    *)
(***************************************************************************)
Frame(f, i) ==
    [fn |-> f, index |-> i, pc |-> "start", lhs |-> NoNode, next_index |-> i,
     op |-> NoOp]

Top == stack[Len(stack)]
Pop == SubSeq(stack, 1, Len(stack) - 1)
SetTop(f) == [stack EXCEPT ![Len(stack)] = f]

Running(f, p) ==
    /\ status = "parsing"
    /\ stack # <<>>
    /\ Top.fn = f
    /\ Top.pc = p

\* tokens[i] of the source, for an i that is in range
At(i) == tokens[i + 1]
InRange(i) == i < Len(tokens)

\* a function calls another: the caller waits at pc p
Call(p, callee, i) ==
    /\ stack' = Append(SetTop([Top EXCEPT !.pc = p]), Frame(callee, i))
    /\ UNCHANGED <<input, status, tokens, ret, err, ast, start_level, work, lines>>

\* a function returns (node, next position) to its caller
Return(node, i) ==
    /\ stack' = Pop
    /\ ret' = <<[node |-> node, idx |-> i]>>
    /\ UNCHANGED <<input, status, tokens, err, ast, start_level, work, lines>>

\* panic!: the process aborts where it stands
Panic(kind) ==
    /\ status' = "panic"
    /\ err' = kind
    /\ UNCHANGED <<input, tokens, stack, ret, ast, start_level, work, lines>>

\* the caller takes the returned pair
Receive(f) ==
    /\ stack' = SetTop(f)
    /\ ret' = <<>>
    /\ UNCHANGED <<input, status, tokens, err, ast, start_level, work, lines>>

(***************************************************************************)
(* parse_expression                                                        *)
(***************************************************************************)
\* line 80: call parse_term(tokens, index)
parse_expression_call_term ==
    /\ Running("parse_expression", "start")
    /\ Call("wait_lhs", "parse_term", Top.index)

\* line 80: let (mut lhs, mut next_index) = ...
parse_expression_bind_lhs ==
    /\ Running("parse_expression", "wait_lhs")
    /\ ret # <<>>
    /\ Receive([Top EXCEPT !.lhs = ret[1].node, !.next_index = ret[1].idx,
                           !.pc = "loop"])

\* mutant: the right operand is parsed by parse_expression itself, which
\* nests a chain to the right
parse_expression_operator_recursive ==
    /\ Running("parse_expression", "loop")
    /\ InRange(Top.next_index)
    /\ At(Top.next_index).type = "Operator"
    /\ stack' = Append(SetTop([Top EXCEPT !.pc = "wait_rhs",
                                          !.op = At(Top.next_index).op]),
                       Frame("parse_expression", Top.next_index + 1))
    /\ UNCHANGED <<input, status, tokens, ret, err, ast, start_level, work, lines>>

\* lines 82-85: an Operator token, of any operation: call parse_term after it
parse_expression_operator ==
    /\ Running("parse_expression", "loop")
    /\ InRange(Top.next_index)
    /\ At(Top.next_index).type = "Operator"
    /\ stack' = Append(SetTop([Top EXCEPT !.pc = "wait_rhs",
                                          !.op = At(Top.next_index).op]),
                       Frame("parse_term", Top.next_index + 1))
    /\ UNCHANGED <<input, status, tokens, ret, err, ast, start_level, work, lines>>

\* lines 85-87: fold the right operand into lhs
parse_expression_fold ==
    /\ Running("parse_expression", "wait_rhs")
    /\ ret # <<>>
    /\ Receive([Top EXCEPT !.lhs = BinOp(Top.op, Top.lhs, ret[1].node),
                           !.next_index = ret[1].idx,
                           !.op = NoOp,
                           !.pc = "loop"])

\* lines 82, 89, 94: the loop ends at the end of the tokens or at a RightParen
parse_expression_return ==
    /\ Running("parse_expression", "loop")
    /\ IF InRange(Top.next_index)
       THEN At(Top.next_index).type = "RightParen"
       ELSE TRUE
    /\ Return(Top.lhs, Top.next_index)

\* line 90: any other token
parse_expression_unexpected ==
    /\ Running("parse_expression", "loop")
    /\ InRange(Top.next_index)
    /\ At(Top.next_index).type \notin {"Operator", "RightParen"}
    /\ Panic("UnexpectedToken")

(***************************************************************************)
(* parse_term                                                              *)
(***************************************************************************)
\* mutant: the loop of parse_term takes any operator
IsMulDivAnyOperator(tok) == tok.type = "Operator"

\* mutant: the loop of parse_term forgets Divide
IsMulDivOnlyMultiply(tok) == tok.type = "Operator" /\ tok.op = "Multiply"

\* line 102: the pattern of the loop of parse_term
IsMulDiv(tok) == tok.type = "Operator" /\ tok.op \in {"Multiply", "Divide"}

\* line 98: call parse_factor(tokens, index)
parse_term_call_factor ==
    /\ Running("parse_term", "start")
    /\ Call("wait_lhs", "parse_factor", Top.index)

\* line 98: let (mut lhs, mut next_index) = ...
parse_term_bind_lhs ==
    /\ Running("parse_term", "wait_lhs")
    /\ ret # <<>>
    /\ Receive([Top EXCEPT !.lhs = ret[1].node, !.next_index = ret[1].idx,
                           !.pc = "loop"])

\* lines 100-108: a Multiply or Divide token: call parse_factor after it
parse_term_operator ==
    /\ Running("parse_term", "loop")
    /\ InRange(Top.next_index)
    /\ IsMulDiv(At(Top.next_index))
    /\ stack' = Append(SetTop([Top EXCEPT !.pc = "wait_rhs",
                                          !.op = At(Top.next_index).op]),
                       Frame("parse_factor", Top.next_index + 1))
    /\ UNCHANGED <<input, status, tokens, ret, err, ast, start_level, work, lines>>

\* lines 108-110: fold the right operand into lhs
parse_term_fold ==
    /\ Running("parse_term", "wait_rhs")
    /\ ret # <<>>
    /\ Receive([Top EXCEPT !.lhs = BinOp(Top.op, Top.lhs, ret[1].node),
                           !.next_index = ret[1].idx,
                           !.op = NoOp,
                           !.pc = "loop"])

\* lines 100, 112, 116: the loop ends at the end of the tokens or at any token
\* that is not Multiply or Divide
parse_term_return ==
    /\ Running("parse_term", "loop")
    /\ IF InRange(Top.next_index)
       THEN ~IsMulDiv(At(Top.next_index))
       ELSE TRUE
    /\ Return(Top.lhs, Top.next_index)

(***************************************************************************)
(* parse_factor                                                            *)
(***************************************************************************)
\* mutant: the Number is not consumed
parse_factor_number_no_advance ==
    /\ Running("parse_factor", "start")
    /\ InRange(Top.index)
    /\ At(Top.index).type = "Number"
    /\ Return(Literal(At(Top.index).value), Top.index)

\* line 121: a Number is a Literal, one token long
parse_factor_number ==
    /\ Running("parse_factor", "start")
    /\ InRange(Top.index)
    /\ At(Top.index).type = "Number"
    /\ Return(Literal(At(Top.index).value), Top.index + 1)

\* lines 122-123: a LeftParen: call parse_expression after it
parse_factor_group ==
    /\ Running("parse_factor", "start")
    /\ InRange(Top.index)
    /\ At(Top.index).type = "LeftParen"
    /\ Call("wait_expr", "parse_expression", Top.index + 1)

\* mutant: an Operator or a RightParen in atom position is taken for a zero
parse_factor_unexpected_lenient ==
    /\ Running("parse_factor", "start")
    /\ IF InRange(Top.index)
       THEN At(Top.index).type \in {"Operator", "RightParen"}
       ELSE TRUE
    /\ IF InRange(Top.index)
       THEN Return(Literal(0), Top.index + 1)
       ELSE Panic("IndexOutOfBounds")

\* lines 120, 130: tokens[index] is out of range (the slice index panics) or
\* is an Operator or a RightParen
parse_factor_unexpected ==
    /\ Running("parse_factor", "start")
    /\ IF InRange(Top.index)
       THEN At(Top.index).type \in {"Operator", "RightParen"}
       ELSE TRUE
    /\ Panic(IF InRange(Top.index) THEN "UnexpectedToken" ELSE "IndexOutOfBounds")

\* mutant: the RightParen is not consumed
parse_factor_close_no_advance ==
    /\ Running("parse_factor", "wait_expr")
    /\ ret # <<>>
    /\ LET expr == ret[1].node
           next_index == ret[1].idx
       IN  IF ~InRange(next_index)
           THEN Panic("IndexOutOfBounds")
           ELSE IF At(next_index) = RightParen
           THEN Return(expr, next_index)
           ELSE Panic("ExpectedCloseParen")

\* lines 123-128: the expression in the group has returned: tokens[next_index]
\* is read (a panic of the slice index when out of range) and must be RightParen
parse_factor_close ==
    /\ Running("parse_factor", "wait_expr")
    /\ ret # <<>>
    /\ LET expr == ret[1].node
           next_index == ret[1].idx
       IN  IF ~InRange(next_index)
           THEN Panic("IndexOutOfBounds")
           ELSE IF At(next_index) = RightParen
           THEN Return(expr, next_index + 1)
           ELSE Panic("ExpectedCloseParen")

(***************************************************************************)
(* build_ast, main                                                         *)
(***************************************************************************)
\* lines 135-136: tokenise the input, then call parse_expression(&tokens, 0)
build_ast_tokenise ==
    /\ status = "start"
    /\ \E overflow_checks \in BOOLEAN :
         LET r == tokenise(input, overflow_checks)
         IN  IF r.ok
             THEN /\ tokens' = r.tokens
                  /\ stack' = <<Frame("parse_expression", 0)>>
                  /\ status' = "parsing"
                  /\ err' = err
             ELSE /\ tokens' = tokens
                  /\ stack' = stack
                  /\ status' = "panic"
                  /\ err' = r.err
    /\ UNCHANGED <<input, ret, ast, start_level, work, lines>>

\* lines 136-137: let (ast, _) = ...; the returned position is dropped
build_ast_return ==
    /\ status = "parsing"
    /\ stack = <<>>
    /\ ret # <<>>
    /\ ast' = ret[1].node
    /\ status' = "built"
    /\ UNCHANGED <<input, tokens, stack, ret, err, start_level, work, lines>>

(***************************************************************************)
(* visualise_ast: `work` is the stack of calls still to be made, the next  *)
(* one on top; `lines` is what println! has written.                       *)
(***************************************************************************)
Marker == "|   "

RECURSIVE repeat(_, _)
repeat(s, n) == IF n = 0 THEN <<>> ELSE <<s>> \o repeat(s, n - 1)

\* lines 142, 144: the line of a node: the marker `level` times, then the label
Line(node, level) ==
    repeat(Marker, level) \o
    << IF node.kind = "Literal"
       THEN "- Literal(" \o ToString(node.value) \o ")"
       ELSE "- BinOp(" \o node.op \o ")" >>

\* mutant: the right child is rendered first
ChildrenRightFirst(node, level) ==
    << [node |-> node.lhs, level |-> level + 1],
       [node |-> node.rhs, level |-> level + 1] >>

\* the children of a BinOp, the left one to be rendered first
Children(node, level) ==
    << [node |-> node.rhs, level |-> level + 1],
       [node |-> node.lhs, level |-> level + 1] >>

\* line 160 calls visualise_ast(&ast, 0); the function takes any level
visualise_ast_call ==
    /\ status = "built"
    /\ \E level \in 0..MaxLevel :
         /\ start_level' = level
         /\ work' = <<[node |-> ast, level |-> level]>>
    /\ status' = "rendering"
    /\ UNCHANGED <<input, tokens, stack, ret, err, ast, lines>>

WorkTop == work[Len(work)]
WorkRest == SubSeq(work, 1, Len(work) - 1)

\* line 142
visualise_ast_literal ==
    /\ status = "rendering"
    /\ work # <<>>
    /\ WorkTop.node.kind = "Literal"
    /\ lines' = Append(lines, Line(WorkTop.node, WorkTop.level))
    /\ work' = WorkRest
    /\ status' = IF work' = <<>> THEN "done" ELSE "rendering"
    /\ UNCHANGED <<input, tokens, stack, ret, err, ast, start_level>>

\* lines 143-147
visualise_ast_binop ==
    /\ status = "rendering"
    /\ work # <<>>
    /\ WorkTop.node.kind = "BinOp"
    /\ lines' = Append(lines, Line(WorkTop.node, WorkTop.level))
    /\ work' = WorkRest \o Children(WorkTop.node, WorkTop.level)
    /\ status' = "rendering"
    /\ UNCHANGED <<input, tokens, stack, ret, err, ast, start_level>>

(***************************************************************************)
(* Inputs                                                                  *)
(***************************************************************************)
Alphabet == {"1", "2", "+", "-", "*", "/", "(", ")"}
OperatorChars == {"+", "-", "*", "/"}
NumberChars == {"1", "2"}

\* every string over Alphabet of at most n characters
Strings(S, n) == UNION {[1..k -> S] : k \in 0..n}

\* the well-formed expressions of exactly n characters:
\*   expr ::= atom | expr operator atom      atom ::= number | ( expr )
WellFormedOfLen[n \in 0..(MaxTok + 1)] ==
    LET AtomOfLen(k) ==
            IF k = 1 THEN {<<d>> : d \in NumberChars}
            ELSE IF k >= 3
            THEN {<<"(">> \o e \o <<")">> : e \in WellFormedOfLen[k - 2]}
            ELSE {}
    IN  AtomOfLen(n) \cup
        UNION {{e \o <<o>> \o a : e \in WellFormedOfLen[i],
                                  o \in OperatorChars,
                                  a \in AtomOfLen((n - 1) - i)} : i \in 1..(n - 2)}

WellFormedInputs == UNION {WellFormedOfLen[n] : n \in 1..MaxTok}

Inputs == Strings(Alphabet, MaxLen) \cup WellFormedInputs

(***************************************************************************)
(* The program: one line is read, parsed and rendered.                     *)
(***************************************************************************)
Init ==
    /\ input = <<>>
    /\ status = "reading"
    /\ tokens = <<>>
    /\ stack = <<>>
    /\ ret = <<>>
    /\ err = "None"
    /\ ast = NoNode
    /\ start_level = 0
    /\ work = <<>>
    /\ lines = <<>>

\* lines 153-158: main reads one line
main_read_line ==
    /\ status = "reading"
    /\ input' \in Inputs
    /\ status' = "start"
    /\ UNCHANGED <<tokens, stack, ret, err, ast, start_level, work, lines>>

\* the steps of the parser
Parse ==
    \/ parse_expression_call_term
    \/ parse_expression_bind_lhs
    \/ parse_expression_operator
    \/ parse_expression_fold
    \/ parse_expression_return
    \/ parse_expression_unexpected
    \/ parse_term_call_factor
    \/ parse_term_bind_lhs
    \/ parse_term_operator
    \/ parse_term_fold
    \/ parse_term_return
    \/ parse_factor_number
    \/ parse_factor_group
    \/ parse_factor_unexpected
    \/ parse_factor_close

\* the steps of the renderer
Visualise ==
    \/ visualise_ast_call
    \/ visualise_ast_literal
    \/ visualise_ast_binop

Next ==
    \/ main_read_line
    \/ build_ast_tokenise
    \/ Parse
    \/ build_ast_return
    \/ Visualise

Spec == Init /\ [][Next]_vars

\* once the tokens are there, the parser runs until it returns or panics
FairSpec == Spec /\ WF_vars(Parse \/ build_ast_return)

(***************************************************************************)
(* The lexer alone, on strings of digits long enough to leave the i32      *)
(* range.                                                                  *)
(***************************************************************************)
LexDigits == {"0", "2", "4"}

DigitInputs == UNION {[1..k -> LexDigits] : k \in 1..MaxDigits}

\* lines 153-158, for a line of digits
main_read_digits ==
    /\ status = "reading"
    /\ input' \in DigitInputs
    /\ status' = "start"
    /\ UNCHANGED <<tokens, stack, ret, err, ast, start_level, work, lines>>

NextLex ==
    \/ main_read_digits
    \/ build_ast_tokenise

SpecLex == Init /\ [][NextLex]_vars

(***************************************************************************)
(* Vocabulary of the properties                                            *)
(***************************************************************************)
AddSub == {"Add", "Subtract"}
MulDiv == {"Multiply", "Divide"}

\* parse_expression(tokens, 0) has come to its end, one way or the other
Finished == status \notin {"reading", "start", "parsing"}
\* build_ast has returned an AST
Built == status \in {"built", "rendering", "done"}

Count(seq, k, t) == Cardinality({j \in 1..k : seq[j].type = t})

\* the nesting depth in front of token k (1-based)
DepthBefore(seq, k) ==
    Count(seq, k - 1, "LeftParen") - Count(seq, k - 1, "RightParen")

Balanced(seq) ==
    /\ \A k \in 1..(Len(seq) + 1) : DepthBefore(seq, k) >= 0
    /\ DepthBefore(seq, Len(seq) + 1) = 0

TopLevelOps(seq, S) ==
    {k \in 1..Len(seq) : /\ seq[k].type = "Operator"
                         /\ seq[k].op \in S
                         /\ DepthBefore(seq, k) = 0}

SetMax(S) == CHOOSE x \in S : \A y \in S : y <= x

\* The tree the grammar gives a token sequence, by the usual reading: the last
\* top-level + or - splits it; failing that the last top-level * or /; failing
\* that it is a number or a parenthesised expression.  NoNode marks a part
\* that is no expression.
RECURSIVE RefAST(_)
RefAST(seq) ==
    LET Split(k) == BinOp(seq[k].op,
                          RefAST(SubSeq(seq, 1, k - 1)),
                          RefAST(SubSeq(seq, k + 1, Len(seq))))
    IN  IF seq = <<>> \/ ~Balanced(seq) THEN NoNode
        ELSE IF TopLevelOps(seq, AddSub) # {}
        THEN Split(SetMax(TopLevelOps(seq, AddSub)))
        ELSE IF TopLevelOps(seq, MulDiv) # {}
        THEN Split(SetMax(TopLevelOps(seq, MulDiv)))
        ELSE IF Len(seq) = 1
        THEN IF seq[1].type = "Number" THEN Literal(seq[1].value) ELSE NoNode
        ELSE IF seq[1].type = "LeftParen" /\ seq[Len(seq)].type = "RightParen"
        THEN RefAST(SubSeq(seq, 2, Len(seq) - 1))
        ELSE NoNode

RECURSIVE IsTree(_)
IsTree(node) ==
    \/ node.kind = "Literal"
    \/ node.kind = "BinOp" /\ IsTree(node.lhs) /\ IsTree(node.rhs)

WellFormed(seq) == IsTree(RefAST(seq))

HasParens(seq) == \E k \in 1..Len(seq) : seq[k].type \in {"LeftParen", "RightParen"}

OpsOf(seq) == {seq[k].op : k \in {j \in 1..Len(seq) : seq[j].type = "Operator"}}

\* number operator number ... number, no parentheses
Flat(seq) ==
    /\ Len(seq) % 2 = 1
    /\ \A k \in 1..Len(seq) :
         seq[k].type = IF k % 2 = 1 THEN "Number" ELSE "Operator"

\* the operations of the BinOps of a tree
RECURSIVE OpsIn(_)
OpsIn(node) ==
    IF node.kind = "BinOp"
    THEN {node.op} \cup OpsIn(node.lhs) \cup OpsIn(node.rhs)
    ELSE {}

\* no Multiply/Divide node has an Add/Subtract node below it
RECURSIVE MulDivInnermost(_)
MulDivInnermost(node) ==
    IF node.kind # "BinOp" THEN TRUE
    ELSE /\ MulDivInnermost(node.lhs)
         /\ MulDivInnermost(node.rhs)
         /\ node.op \in MulDiv =>
              (OpsIn(node.lhs) \cup OpsIn(node.rhs)) \cap AddSub = {}

(***************************************************************************)
(* C1  Precedence.  A well-formed input without parentheses that mixes     *)
(* + or - with * or / is parsed, the root of its AST is an Add or Subtract *)
(* BinOp and no Multiply/Divide BinOp is above an Add/Subtract one; the    *)
(* tokens a + b * c give BinOp(Add, a, BinOp(Multiply, b, c)).             *)
(***************************************************************************)
C1_Precedence ==
    /\ (Finished /\ Flat(tokens)
          /\ OpsOf(tokens) \cap AddSub # {} /\ OpsOf(tokens) \cap MulDiv # {})
       => /\ Built
          /\ ast.kind = "BinOp"
          /\ ast.op \in AddSub
          /\ MulDivInnermost(ast)
    /\ \A a, b, c \in {1, 2} :
         (Finished /\ tokens = <<Number(a), Operator("Add"), Number(b),
                                 Operator("Multiply"), Number(c)>>)
         => /\ Built
            /\ ast = BinOp("Add", Literal(a),
                           BinOp("Multiply", Literal(b), Literal(c)))

C1_Witness ==
    /\ status = "done"
    /\ input = <<"2", "+", "1", "*", "2">>
    /\ ast = BinOp("Add", Literal(2), BinOp("Multiply", Literal(1), Literal(2)))

(***************************************************************************)
(* C2  Left-associativity.  A chain n1 op1 n2 ... nk whose operators are   *)
(* all + - or all * / is parsed into the fully left-nested tree            *)
(* BinOp(op_{k-1}, <tree of the first k-1 operands>, Literal(nk)), and no  *)
(* BinOp of the tree has a BinOp of the same level as its right child.     *)
(***************************************************************************)
RECURSIVE LeftNested(_)
LeftNested(seq) ==
    IF Len(seq) = 1 THEN Literal(seq[1].value)
    ELSE BinOp(seq[Len(seq) - 1].op,
               LeftNested(SubSeq(seq, 1, Len(seq) - 2)),
               Literal(seq[Len(seq)].value))

Level(o) == IF o \in AddSub THEN "AddSub" ELSE "MulDiv"

RECURSIVE NoSameLevelRightChild(_)
NoSameLevelRightChild(node) ==
    IF node.kind # "BinOp" THEN TRUE
    ELSE /\ NoSameLevelRightChild(node.lhs)
         /\ NoSameLevelRightChild(node.rhs)
         /\ node.rhs.kind = "BinOp" => Level(node.rhs.op) # Level(node.op)

IsChain(seq) ==
    /\ Flat(seq)
    /\ OpsOf(seq) \subseteq AddSub \/ OpsOf(seq) \subseteq MulDiv

C2_LeftAssociative ==
    (Finished /\ IsChain(tokens))
    => /\ Built
       /\ ast = LeftNested(tokens)
       /\ NoSameLevelRightChild(ast)

C2_Witness ==
    /\ status = "done"
    /\ input = <<"2", "-", "1", "-", "2">>
    /\ ast = BinOp("Subtract", BinOp("Subtract", Literal(2), Literal(1)), Literal(2))

(***************************************************************************)
(* C3  Grouping.  When parse_factor, called on a LeftParen that is         *)
(* followed by a well-formed expression E and its matching RightParen,     *)
(* gets E's parse back, it returns exactly the tree of E and the position  *)
(* just after that RightParen; so a well-formed input with parentheses is  *)
(* parsed into the tree in which each group is one operand, and            *)
(* ( a + b ) * c gives BinOp(Multiply, BinOp(Add, a, b), c).               *)
(***************************************************************************)
\* the 0-based position of the RightParen matching the LeftParen at 0-based i,
\* or -1
MatchingClose(seq, i) ==
    LET C == {j \in (i + 2)..Len(seq) :
                /\ seq[j].type = "RightParen"
                /\ DepthBefore(seq, j) = DepthBefore(seq, i + 1) + 1}
    IN  IF C = {} THEN -1
        ELSE (CHOOSE j \in C : \A y \in C : j <= y) - 1

\* the tokens strictly between 0-based positions i and m
Between(seq, i, m) == SubSeq(seq, i + 2, m)

GroupCloses ==
    /\ status = "parsing"
    /\ stack # <<>>
    /\ Top.fn = "parse_factor"
    /\ Top.pc = "wait_expr"
    /\ ret # <<>>

C3_GroupStep ==
    GroupCloses =>
      LET i == Top.index
          m == MatchingClose(tokens, i)
      IN  (m >= 0 /\ WellFormed(Between(tokens, i, m)))
          => /\ status' = "parsing"
             /\ stack' = Pop
             /\ ret' = <<[node |-> RefAST(Between(tokens, i, m)), idx |-> m + 1]>>

C3_Grouping ==
    /\ [][C3_GroupStep]_vars
    /\ [](\A a, b, c \in {1, 2} :
            (Finished /\ tokens = <<LeftParen, Number(a), Operator("Add"), Number(b),
                                    RightParen, Operator("Multiply"), Number(c)>>)
            => /\ Built
               /\ ast = BinOp("Multiply",
                              BinOp("Add", Literal(a), Literal(b)), Literal(c)))
    /\ []((Finished /\ HasParens(tokens) /\ WellFormed(tokens))
            => (Built /\ ast = RefAST(tokens)))

C3_Witness ==
    /\ status = "done"
    /\ input = <<"(", "2", "+", "1", ")", "*", "2">>
    /\ ast = BinOp("Multiply", BinOp("Add", Literal(2), Literal(1)), Literal(2))

(***************************************************************************)
(* C4  Digits.  An input of decimal digits only, of any length, is         *)
(* tokenised into exactly one token Number(v) with v the integer that the  *)
(* digit string denotes: v is not negative and its decimal digits are the  *)
(* input without its leading zeros.                                        *)
(***************************************************************************)
RECURSIVE DecimalDigits(_)
DecimalDigits(n) ==
    IF n < 10 THEN <<n>> ELSE Append(DecimalDigits(n \div 10), n % 10)

RECURSIVE StripLeadingZeros(_)
StripLeadingZeros(ds) ==
    IF Len(ds) > 1 /\ ds[1] = 0 THEN StripLeadingZeros(Tail(ds)) ELSE ds

DigitsOf(inp) == [k \in 1..Len(inp) |-> to_digit(inp[k])]

AllDigits(inp) == inp # <<>> /\ \A k \in 1..Len(inp) : is_digit(inp[k])

C4_DigitsGiveTheirNumber ==
    (status \notin {"reading", "start"} /\ AllDigits(input))
    => /\ status # "panic"
       /\ Len(tokens) = 1
       /\ tokens[1].type = "Number"
       /\ tokens[1].value >= 0
       /\ DecimalDigits(tokens[1].value) = StripLeadingZeros(DigitsOf(input))

(***************************************************************************)
(* C5  No AST for a malformed input.  A token sequence with a RightParen   *)
(* that no LeftParen matches fails with an unexpected-token failure; and   *)
(* whenever build_ast returns an AST, parse_expression(tokens, 0) returned *)
(* the number of tokens as its position.                                   *)
(***************************************************************************)
StrayRightParen(seq) ==
    \E k \in 1..Len(seq) : seq[k].type = "RightParen" /\ DepthBefore(seq, k) <= 0

C5_NoASTOfAPrefix ==
    /\ (Finished /\ StrayRightParen(tokens))
       => (status = "panic" /\ err = "UnexpectedToken")
    /\ Built => ret[1].idx = Len(tokens)

(***************************************************************************)
(* C6  Unterminated group.  When parse_factor has the expression of a      *)
(* group back and the token at the returned position is not a RightParen,  *)
(* or there is no token there, the failure is the "expected closing        *)
(* parenthesis" one of parse_factor.                                       *)
(***************************************************************************)
C6_UnterminatedGroup ==
    (/\ status = "panic"
     /\ stack # <<>>
     /\ Top.fn = "parse_factor"
     /\ Top.pc = "wait_expr")
    => err = "ExpectedCloseParen"

(***************************************************************************)
(* C7  Atom-position failures.  When parse_factor is called at a position  *)
(* past the end of the tokens or at an Operator or a RightParen, its step  *)
(* is a panic (unexpected token, or index out of range); a panic is final, *)
(* no AST and no output line exist in a panicked state; so build_ast       *)
(* returns no AST for an empty input, a leading or trailing operator, two  *)
(* operators in a row or "()", in a token sequence whose RightParens all   *)
(* have their LeftParen (the parser stops in front of any other, see C5).  *)
(***************************************************************************)
BadAtom ==
    /\ status = "parsing"
    /\ stack # <<>>
    /\ Top.fn = "parse_factor"
    /\ Top.pc = "start"
    /\ IF InRange(Top.index)
       THEN At(Top.index).type \in {"Operator", "RightParen"}
       ELSE TRUE

C7_BadAtomStep ==
    /\ BadAtom =>
         /\ status' = "panic"
         /\ err' = IF InRange(Top.index) THEN "UnexpectedToken" ELSE "IndexOutOfBounds"
    /\ status = "panic" => status' = "panic"

AtomMissing(seq) ==
    \/ seq = <<>>
    \/ seq[1].type = "Operator"
    \/ seq[Len(seq)].type = "Operator"
    \/ \E k \in 1..(Len(seq) - 1) :
         \/ seq[k].type = "Operator" /\ seq[k + 1].type = "Operator"
         \/ seq[k].type = "LeftParen" /\ seq[k + 1].type = "RightParen"

C7_AtomPositionFailures ==
    /\ [][C7_BadAtomStep]_vars
    /\ [](status = "panic" => (ast = NoNode /\ lines = <<>>))
    /\ []((Finished /\ AtomMissing(tokens) /\ ~StrayRightParen(tokens))
            => status = "panic")

C7_Witness ==
    /\ status = "panic"
    /\ err = "IndexOutOfBounds"
    /\ input = <<"1", "+">>
    /\ Top.fn = "parse_factor"
    /\ Top.pc = "start"
    /\ Len(stack) = 3

(***************************************************************************)
(* C8  Termination.  Every run of the parser comes to an end (an AST or a  *)
(* panic); every call of parse_factor, parse_term or parse_expression that *)
(* returns, returns a position greater than the one it was called with,    *)
(* and every iteration of the two operator loops increases next_index.     *)
(***************************************************************************)
Returns ==
    /\ status = "parsing"
    /\ stack # <<>>
    /\ status' = "parsing"
    /\ stack' = Pop

LoopIterates ==
    /\ status = "parsing"
    /\ stack # <<>>
    /\ Top.pc = "wait_rhs"
    /\ Len(stack') = Len(stack)
    /\ ret' = <<>>

C8_Advance ==
    /\ Returns => ret'[1].idx > Top.index
    /\ LoopIterates => stack'[Len(stack)].next_index > Top.next_index

C8_Termination ==
    /\ (status = "parsing") ~> Finished
    /\ [][C8_Advance]_vars

C8_Witness ==
    /\ status = "parsing"
    /\ input = <<"1", "*", "(", "2", "+", "1", ")">>
    /\ stack # <<>>
    /\ Top.fn = "parse_term"
    /\ Top.pc = "loop"
    /\ Top.next_index = 7
    /\ Top.lhs.kind = "BinOp"

(***************************************************************************)
(* C9  Rendering.  visualise_ast(node, d) writes exactly one line per node *)
(* of the AST, in pre-order: the line of a node comes before the lines of  *)
(* its descendants, and the lines of a left subtree before those of the    *)
(* right subtree; the line of a node k levels below the root carries the   *)
(* marker d + k times.  The lines are a function of the AST and d.         *)
(***************************************************************************)
\* the paths (sequences of "L" / "R") that lead from the root to a node
RECURSIVE Paths(_)
Paths(node) ==
    IF node.kind = "BinOp"
    THEN {<<>>} \cup {<<"L">> \o p : p \in Paths(node.lhs)}
                \cup {<<"R">> \o p : p \in Paths(node.rhs)}
    ELSE {<<>>}

RECURSIVE NodeAt(_, _)
NodeAt(node, p) ==
    IF p = <<>> THEN node
    ELSE NodeAt(IF Head(p) = "L" THEN node.lhs ELSE node.rhs, Tail(p))

IsProperPrefix(p, q) == Len(p) < Len(q) /\ SubSeq(q, 1, Len(p)) = p

\* p comes before q in pre-order
Before(p, q) ==
    \/ IsProperPrefix(p, q)
    \/ \E k \in 1..Len(p) :
         /\ k <= Len(q)
         /\ SubSeq(p, 1, k - 1) = SubSeq(q, 1, k - 1)
         /\ p[k] = "L"
         /\ q[k] = "R"

Rank(S, p) == 1 + Cardinality({q \in S : Before(q, p)})

NodeLabel(node) ==
    IF node.kind = "Literal"
    THEN "- Literal(" \o ToString(node.value) \o ")"
    ELSE "- BinOp(" \o node.op \o ")"

C9_Rendering ==
    status = "done" =>
      LET S == Paths(ast) IN
      /\ Len(lines) = Cardinality(S)
      /\ \A p \in S :
           LET line == lines[Rank(S, p)]
               n == start_level + Len(p)
           IN  /\ Len(line) = n + 1
               /\ \A k \in 1..n : line[k] = Marker
               /\ line[n + 1] = NodeLabel(NodeAt(ast, p))

C9_Witness ==
    /\ status = "done"
    /\ start_level = 1
    /\ input = <<"2", "*", "(", "1", "-", "2", ")">>
    /\ lines = << <<"|   ", "- BinOp(Multiply)">>,
                  <<"|   ", "|   ", "- Literal(2)">>,
                  <<"|   ", "|   ", "- BinOp(Subtract)">>,
                  <<"|   ", "|   ", "|   ", "- Literal(1)">>,
                  <<"|   ", "|   ", "|   ", "- Literal(2)">> >>

(***************************************************************************)
(* C10  The loop of parse_expression matches any Operator, yet the         *)
(* operator it consumes is always Add or Subtract: every parse_expression  *)
(* frame that holds an operator holds Add or Subtract, and every           *)
(* parse_term frame that holds one holds Multiply or Divide.               *)
(***************************************************************************)
C10_ExpressionFoldsAddSub ==
    \A k \in 1..Len(stack) :
      stack[k].op # NoOp =>
        /\ stack[k].fn = "parse_expression" => stack[k].op \in AddSub
        /\ stack[k].fn = "parse_term" => stack[k].op \in MulDiv

C10_Witness ==
    /\ status = "parsing"
    /\ stack # <<>>
    /\ Top.fn = "parse_expression"
    /\ Top.pc = "wait_rhs"
    /\ Top.op = "Subtract"
    /\ Top.lhs.kind = "BinOp"
    /\ Top.lhs.op = "Divide"
    /\ ret # <<>>
    /\ ret[1].node.kind = "BinOp"
    /\ ret[1].node.op = "Multiply"

====
